---- MODULE Spec2Model ----
(***************************************************************************)
(* Lane boundary tracking of advanced_lane_lines.ipynb: the two searches   *)
(* (sliding_window, subsequent_frame), the fit they return and the         *)
(* per-frame driver process_image with its module-level tracker state.     *)
(*                                                                         *)
(* A mask is a function from pixel <<x, y>> to intensity.  Every mask the  *)
(* driver builds has Channels identical channels (undist_pipeline_warp     *)
(* stacks the same binary three times before warping), so nonzero() lists  *)
(* each active pixel Channels times.                                       *)
(***************************************************************************)
EXTENDS Integers, FiniteSets, Sequences, TLC

VARIABLES
  lanes_detected,   \* module-level tracker mode: None, True or False
  left_fit,         \* module-level stored left fit, <<>> for the empty list
  right_fit,        \* module-level stored right fit
  warped_binary,    \* module-level mask left by the single-image cells
  out_img,          \* module-level visualisation image sliding_window writes
  fit_samples,      \* ghost: sample counts behind the stored fits
  frame,            \* ghost: what the last call of process_image did
  ws,               \* the window loop of one sliding_window call, band by band
  geom              \* what calculate_curvature reported for one pair of radii

vars == <<lanes_detected, left_fit, right_fit, warped_binary, out_img,
          fit_samples, frame, ws, geom>>

\* image width (columns) of the warped mask
W == 1280
\* image height (rows) of the warped mask, scaled down from 720
H == 9
\* number of channels of the mask handed to the searches
Channels == 3
nwindows == 9
margin == 100
minpix == 50
\* intensity of an active pixel of 255*binary
Full == 255

PyNone == "None"
PyTrue == "True"
PyFalse == "False"

\* Pixels that a frame's mask may activate: three on the left line, two on
\* the right line.  The lower right pixel sits in an odd column, so that the
\* two histogram peaks can add up to an odd number.
Candidates ==
  {<<100, H - 1>>, <<110, 5>>, <<120, 2>>, <<1001, H - 1>>, <<1020, 2>>}

Masks == [Candidates -> {0, Full}]

ZeroMask == [p \in Candidates |-> 0]

\* Masks the single-image cells may have left in warped_binary: a test image
\* showing the whole left line and at least one pixel of the right line.
GlobalMasks ==
  {m \in Masks : /\ \A p \in Candidates : p[1] < W \div 2 => m[p] # 0
                 /\ \E p \in Candidates : p[1] >= W \div 2 /\ m[p] # 0}

(***************************************************************************)
(* Arithmetic helpers                                                      *)
(***************************************************************************)
Abs(n) == IF n < 0 THEN -n ELSE n

RECURSIVE Gcd(_, _)
Gcd(a, b) == IF b = 0 THEN a ELSE Gcd(b, a % b)

RECURSIVE Sum(_, _)
Sum(f, S) ==
  IF S = {} THEN 0
  ELSE LET e == CHOOSE z \in S : TRUE IN f[e] + Sum(f, S \ {e})

\* binary_warped.nonzero(): the active pixels (each listed once per channel)
Active(m) == {p \in DOMAIN m : m[p] # 0}

\* faulty variant: counts each pixel once, as if nonzero() ran on a single channel
SampleCount_pixels(S) == Cardinality(S)

\* x.shape[0] of the sample arrays taken from nonzero() with an index set
SampleCount(S) == Channels * Cardinality(S)

\* number of distinct y-values of a pixel set
Rows(S) == {p[2] : p \in S}

(***************************************************************************)
(* Column histogram of the bottom half and the centre offset               *)
(***************************************************************************)
midpoint == W \div 2

HistAt(m, x) ==
  LET col == {p \in DOMAIN m : p[1] = x /\ p[2] >= H \div 2}
  IN  Sum([p \in col |-> m[p]], col)

\* np.argmax(histogram[lo:hi]) + lo: the first column of maximal sum.  Only
\* column lo and the columns that hold a pixel can be that column.
FirstMax(hist) ==
  CHOOSE e \in hist :
    \A z \in hist : e[2] > z[2] \/ (e[2] = z[2] /\ e[1] <= z[1])

ArgMax(m, lo, hi) ==
  LET cols == {lo} \cup {x \in {p[1] : p \in DOMAIN m} : x >= lo /\ x < hi}
  IN  (CHOOSE e \in {FirstMax(hist) :
                       hist \in {{<<x, HistAt(m, x)>> : x \in cols}}} :
         TRUE)[1]

leftx_base(m) == ArgMax(m, 0, midpoint)

rightx_base(m) == ArgMax(m, midpoint, W)

center_offset(m) == ((leftx_base(m) + rightx_base(m)) \div 2) - midpoint

(***************************************************************************)
(* np.polyfit(y, x, 2) on a non-empty sample set, as exact rationals       *)
(* <<a, b, c, d>> standing for x = (a*y^2 + b*y + c) / d with d > 0.       *)
(* polyfit scales the Vandermonde columns by their norms and returns the   *)
(* least-squares solution of minimum scaled norm when the rank is short.   *)
(* Listing every sample Channels times changes neither solution, so the    *)
(* sums run over the pixel set.                                            *)
(***************************************************************************)
Normalize(a, b, c, d) ==
  LET g == Gcd(Gcd(Abs(a), Abs(b)), Gcd(Abs(c), Abs(d)))
      s == IF d < 0 THEN -1 ELSE 1
  IN  <<(s * a) \div g, (s * b) \div g, (s * c) \div g, (s * d) \div g>>

Det3(m) ==
    m[1][1] * (m[2][2] * m[3][3] - m[2][3] * m[3][2])
  - m[1][2] * (m[2][1] * m[3][3] - m[2][3] * m[3][1])
  + m[1][3] * (m[2][1] * m[3][2] - m[2][2] * m[3][1])

SY(S, k) ==
  Sum([p \in S |-> IF k = 0 THEN 1
                   ELSE IF k = 1 THEN p[2]
                   ELSE IF k = 2 THEN p[2] * p[2]
                   ELSE IF k = 3 THEN p[2] * p[2] * p[2]
                   ELSE p[2] * p[2] * p[2] * p[2]], S)

TXY(S, k) ==
  Sum([p \in S |-> IF k = 0 THEN p[1]
                   ELSE IF k = 1 THEN p[1] * p[2]
                   ELSE p[1] * p[2] * p[2]], S)

\* three or more distinct rows: the unique least-squares quadratic
FitFull(S) ==
  LET s0 == SY(S, 0)  s1 == SY(S, 1)  s2 == SY(S, 2)
      s3 == SY(S, 3)  s4 == SY(S, 4)
      t0 == TXY(S, 0) t1 == TXY(S, 1) t2 == TXY(S, 2)
      D  == Det3(<< <<s4, s3, s2>>, <<s3, s2, s1>>, <<s2, s1, s0>> >>)
      A  == Det3(<< <<t2, s3, s2>>, <<t1, s2, s1>>, <<t0, s1, s0>> >>)
      B  == Det3(<< <<s4, t2, s2>>, <<s3, t1, s1>>, <<s2, t0, s0>> >>)
      C  == Det3(<< <<s4, s3, t2>>, <<s3, s2, t1>>, <<s2, s1, t0>> >>)
  IN  Normalize(A, B, C, D)

\* two distinct rows y1, y2: among the quadratics through the two row means,
\* the one of minimum norm in the column-scaled coordinates
FitTwoRows(S) ==
  LET y1 == CHOOSE y \in Rows(S) : \A z \in Rows(S) : y <= z
      y2 == CHOOSE y \in Rows(S) : y # y1
      S1 == {p \in S : p[2] = y1}
      S2 == {p \in S : p[2] = y2}
      c1 == Cardinality(S1)
      c2 == Cardinality(S2)
      sx1 == TXY(S1, 0)
      sx2 == TXY(S2, 0)
      q  == c1 * c2 * (y2 - y1)
      P1 == sx2 * c1 - sx1 * c2
      P2 == sx1 * c2 * (y2 - y1) - y1 * P1
      n1 == -(y1 + y2)
      n2 == y1 * y2
      Num == SY(S, 2) * P1 * n1 + SY(S, 0) * P2 * n2
      Den == SY(S, 4) + SY(S, 2) * n1 * n1 + SY(S, 0) * n2 * n2
  IN  Normalize(-Num, P1 * Den - Num * n1, P2 * Den - Num * n2, q * Den)

\* one row y0 > 0: the minimum-norm solution spreads the mean x evenly over
\* the three scaled columns (row 0 alone would zero two column norms; no
\* candidate pixel lies in row 0)
FitOneRow(S) ==
  LET y0 == CHOOSE y \in Rows(S) : TRUE
      sx == TXY(S, 0)
      n  == Cardinality(S)
  IN  Normalize(sx, sx * y0, sx * y0 * y0, 3 * n * y0 * y0)

polyfit(S) ==
  IF Cardinality(Rows(S)) >= 3 THEN FitFull(S)
  ELSE IF Cardinality(Rows(S)) = 2 THEN FitTwoRows(S)
  ELSE FitOneRow(S)

\* np.polyfit raises TypeError("expected non-empty vector for x")
polyfit_raises(S) == SampleCount(S) = 0

\* numerator of fit[0]*y**2 + fit[1]*y + fit[2] over the denominator fit[4]
FitNum(fit, y) == fit[1] * y * y + fit[2] * y + fit[3]

(***************************************************************************)
(* The validity decision both searches take before fitting                 *)
(***************************************************************************)
\* faulty variant: "or" in place of "and"
Detected_either(nl, nr) == IF nl > 1 \/ nr > 1 THEN PyTrue ELSE PyFalse

Detected(nl, nr) == IF nl > 1 /\ nr > 1 THEN PyTrue ELSE PyFalse

(***************************************************************************)
(* sliding_window(binary_warped): the histogram and the window rows come   *)
(* from its argument, the pixels and the window height from the            *)
(* module-level warped_binary (wb).                                        *)
(***************************************************************************)
window_height == H \div nwindows

InWindow(nz, ylo, yhi, xlo, xhi) ==
  {p \in nz : p[2] >= ylo /\ p[2] < yhi /\ p[1] >= xlo /\ p[1] < xhi}

\* faulty variant: the threshold counts pixels, not nonzero() entries
Recenter_pixels(cur, good) ==
  IF Cardinality(good) > minpix
  THEN Sum([p \in good |-> p[1]], good) \div Cardinality(good)
  ELSE cur

\* np.int(np.mean(nonzerox[good_inds])) when more than minpix samples
Recenter(cur, good) ==
  IF SampleCount(good) > minpix
  THEN Sum([p \in good |-> p[1]], good) \div Cardinality(good)
  ELSE cur

\* one band: collect the pixels of both windows, then move the centres
WindowStep(nz, st) ==
  LET ylo == H - (st.window + 1) * window_height
      yhi == H - st.window * window_height
      gl  == InWindow(nz, ylo, yhi, st.lcur - margin, st.lcur + margin)
      gr  == InWindow(nz, ylo, yhi, st.rcur - margin, st.rcur + margin)
  IN  [window |-> st.window + 1,
       lcur |-> Recenter(st.lcur, gl), rcur |-> Recenter(st.rcur, gr),
       left |-> st.left \cup gl, right |-> st.right \cup gr]

\* for window in range(nwindows)
RECURSIVE Windows(_, _)
Windows(nz, st) ==
  IF st.window = nwindows THEN st
  ELSE CHOOSE r \in {Windows(nz, nxt) : nxt \in {WindowStep(nz, st)}} : TRUE

SearchResult(offset, px) ==
  LET raised == polyfit_raises(px.left) \/ polyfit_raises(px.right)
  IN  [raised         |-> raised,
       lanes_detected |-> Detected(SampleCount(px.left), SampleCount(px.right)),
       center_offset  |-> offset,
       left_fit       |-> IF raised THEN <<>> ELSE polyfit(px.left),
       right_fit      |-> IF raised THEN <<>> ELSE polyfit(px.right),
       leftpx         |-> px.left,
       rightpx        |-> px.right]

sliding_window(binary_warped, wb) ==
  CHOOSE r \in
    {SearchResult(center_offset(binary_warped), px) :
       px \in {Windows(Active(wb),
                       [window |-> 0, lcur |-> leftx_base(binary_warped),
                        rcur |-> rightx_base(binary_warped),
                        left |-> {}, right |-> {}])}} : TRUE

(***************************************************************************)
(* subsequent_frame(binary_warped, left_fit, right_fit)                    *)
(***************************************************************************)
\* lines 499-503: subsequent_frame's own histogram and centre offset
sf_midpoint == W \div 2

\* faulty variant: the right peak is left relative to the right half
sf_center_offset_no_shift(m) ==
  ((ArgMax(m, 0, sf_midpoint) + (ArgMax(m, sf_midpoint, W) - sf_midpoint))
     \div 2) - sf_midpoint

sf_center_offset(m) ==
  ((ArgMax(m, 0, sf_midpoint) + ArgMax(m, sf_midpoint, W)) \div 2)
  - sf_midpoint

\* faulty variant: only the upper edge of the band is tested
InBand_upper_edge(nz, fit) ==
  {p \in nz : p[1] * fit[4] < FitNum(fit, p[2]) + margin * fit[4]}

InBand(nz, fit) ==
  {p \in nz : /\ p[1] * fit[4] > FitNum(fit, p[2]) - margin * fit[4]
              /\ p[1] * fit[4] < FitNum(fit, p[2]) + margin * fit[4]}

subsequent_frame(binary_warped, lf, rf) ==
  IF lf = <<>> \/ rf = <<>>
  THEN \* left_fit[0] of an empty list: IndexError before any decision
       [raised |-> TRUE, lanes_detected |-> PyNone,
        center_offset |-> sf_center_offset(binary_warped),
        left_fit |-> <<>>, right_fit |-> <<>>, leftpx |-> {}, rightpx |-> {}]
  ELSE CHOOSE r \in
         {SearchResult(sf_center_offset(binary_warped), px) :
            px \in {[left |-> InBand(Active(binary_warped), lf),
                     right |-> InBand(Active(binary_warped), rf)]}} : TRUE

(***************************************************************************)
(* calculate_curvature(midoffset, leftx, rightx, ploty), called by         *)
(* overlay_lane_lines.  leftx and rightx are the fitted curves sampled on  *)
(* every row, so the quadratic refitted through them is the curve itself   *)
(* and its leading coefficient is the fit's.  Lengths are fixed-point:     *)
(* tenths of a centimetre, tenths of a kilometre.                          *)
(***************************************************************************)
\* np.absolute(2*left_fit[0]), the divisor of the radius, as the numerator
\* over the fit's denominator; the metric refit scales it by
\* xm_per_pix / ym_per_pix^2, which keeps a zero a zero
CurvatureDivisor(fit) == Abs(2 * fit[1])

\* xm_per_pix = 3.7/700 as a ratio
xm_per_pix_num == 37
xm_per_pix_den == 7000

\* faulty variant: the offset is truncated to whole centimetres
position_whole_cm(midoffset) ==
  10 * ((100 * midoffset * xm_per_pix_num) \div xm_per_pix_den)

\* round(100*midoffset*xm_per_pix, 1) in tenths of a centimetre: the nearest
\* integer to 1000*midoffset*37/7000.  No integer midoffset lands on a tie
\* (74*midoffset is never an odd multiple of 7).
position(midoffset) ==
  (2 * 1000 * midoffset * xm_per_pix_num + xm_per_pix_den)
    \div (2 * xm_per_pix_den)

(***************************************************************************)
(* process_image(img): the module-level cell and the per-frame driver      *)
(***************************************************************************)
\* faulty variant: the cell starts in tracking mode
lanes_detected_init_true == PyTrue

\* lanes_detected = None at the head of the cell
lanes_detected_init == PyNone

\* faulty variant: the window search runs on every frame
NeedsSlidingWindow_always(ld) == TRUE

\* if lanes_detected is None:
NeedsSlidingWindow(ld) == ld = PyNone

\* faulty variant: the test is inverted
NeedsSubsequentFrame_not(ld) == ld # PyTrue

\* if lanes_detected is True:
NeedsSubsequentFrame(ld) == ld = PyTrue

\* leftx_base + rightx_base: twice the histogram midpoint of a mask
BaseSum(m) == leftx_base(m) + rightx_base(m)

\* a search that was not invoked
NoSearch ==
  [raised |-> FALSE, lanes_detected |-> "n/a", center_offset |-> 0,
   left_fit |-> <<>>, right_fit |-> <<>>, leftpx |-> {}, rightpx |-> {}]

NoImage ==
  [kind |-> "none", left |-> <<>>, right |-> <<>>, mid_offset |-> 0,
   position |-> 0, divisors |-> <<>>]

\* the window loop and the geometry converter before their first call
NoWindows == [done |-> FALSE, runs |-> {}, trace |-> <<>>]

NoGeometry ==
  [done |-> FALSE, midoffset |-> 0, left_curverad |-> 0, right_curverad |-> 0,
   position |-> 0, curvature |-> 0]

NoFrame ==
  [processed |-> FALSE, mask |-> ZeroMask, start |-> PyNone,
   ranSW |-> FALSE, ranSF |-> FALSE, sw |-> NoSearch, sf |-> NoSearch,
   prior |-> <<>>, base_sum |-> 0, raised |-> FALSE, image |-> NoImage]

Init ==
  /\ lanes_detected = lanes_detected_init
  /\ left_fit = <<>>
  /\ right_fit = <<>>
  /\ warped_binary \in GlobalMasks
  /\ out_img = [img |-> warped_binary, left |-> {}, right |-> {}]
  /\ fit_samples = <<0, 0>>
  /\ frame = NoFrame
  /\ ws = NoWindows
  /\ geom = NoGeometry

\* faulty variant: the window search's mode is stored but its fits are dropped
FirstIf_mode_only(ranSW, sw) ==
  LET swOK == ranSW /\ ~sw.raised
  IN  [raised |-> ranSW /\ sw.raised,
       ld |-> IF swOK THEN sw.lanes_detected ELSE lanes_detected,
       lf |-> left_fit, rf |-> right_fit, fs |-> fit_samples]

\* lines 731-733: the tracker state after the first if
FirstIf(ranSW, sw) ==
  LET swOK == ranSW /\ ~sw.raised
  IN  [raised |-> ranSW /\ sw.raised,
       ld |-> IF swOK THEN sw.lanes_detected ELSE lanes_detected,
       lf |-> IF swOK THEN sw.left_fit ELSE left_fit,
       rf |-> IF swOK THEN sw.right_fit ELSE right_fit,
       fs |-> IF swOK THEN <<SampleCount(sw.leftpx), SampleCount(sw.rightpx)>>
              ELSE fit_samples]

\* lines 735-747, entered with the state st1 that lines 731-733 left
SecondIf(img, start, ranSW, sw, st1, sf) ==
  LET ranSF == ~st1.raised /\ NeedsSubsequentFrame(st1.ld)
      sfOK  == ranSF /\ ~sf.raised
      reset == ~st1.raised /\ ~ranSF
      raised == st1.raised \/ (ranSF /\ sf.raised)
  IN  /\ lanes_detected' = IF sfOK THEN sf.lanes_detected
                           ELSE IF reset THEN PyNone ELSE st1.ld
      /\ left_fit' = IF sfOK THEN sf.left_fit ELSE st1.lf
      /\ right_fit' = IF sfOK THEN sf.right_fit ELSE st1.rf
      /\ fit_samples' =
           IF sfOK THEN <<SampleCount(sf.leftpx), SampleCount(sf.rightpx)>>
           ELSE st1.fs
      /\ frame' =
           [processed |-> TRUE, mask |-> img, start |-> start,
            ranSW |-> ranSW, ranSF |-> ranSF, sw |-> sw, sf |-> sf,
            prior |-> IF ranSF THEN <<st1.lf, st1.rf>> ELSE <<>>,
            base_sum |-> BaseSum(img),
            raised |-> raised,
            image |-> IF raised THEN NoImage
                      ELSE IF sfOK
                      THEN [kind |-> "overlay", left |-> sf.left_fit,
                            right |-> sf.right_fit,
                            mid_offset |-> sf.center_offset,
                            position |-> position(sf.center_offset),
                            divisors |-> <<CurvatureDivisor(sf.left_fit),
                                           CurvatureDivisor(sf.right_fit)>>]
                      ELSE [NoImage EXCEPT !.kind = "undistorted"]]

\* faulty variant: the visualisation image is rewritten on every frame
OutImgAfter_always(ranSW, img, sw) ==
  [img |-> img, left |-> sw.leftpx, right |-> sw.rightpx]

\* global out_img: sliding_window rebuilds it from its argument and colours
\* the pixels it collected; nothing else in the call assigns it
OutImgAfter(ranSW, img, sw) ==
  IF ranSW THEN [img |-> img, left |-> sw.leftpx, right |-> sw.rightpx]
  ELSE out_img

process_image(img) ==
  LET start == lanes_detected
      ranSW == NeedsSlidingWindow(start)
  IN  /\ \E sw \in {IF ranSW THEN sliding_window(img, warped_binary)
                     ELSE NoSearch} :
          /\ out_img' = OutImgAfter(ranSW, img, sw)
          /\ \E st1 \in {FirstIf(ranSW, sw)} :
               \E sf \in {IF ~st1.raised /\ NeedsSubsequentFrame(st1.ld)
                           THEN subsequent_frame(img, st1.lf, st1.rf)
                           ELSE NoSearch} :
                 SecondIf(img, start, ranSW, sw, st1, sf)
      /\ UNCHANGED <<warped_binary, ws, geom>>

\* One frame of a clip handed to process_image by fl_image.  A frame that
\* raises ends its clip; the module-level state stays for the next clip.
Next == \E img \in Masks : process_image(img)

Spec == Init /\ [][Next]_vars

(***************************************************************************)
(* Properties                                                              *)
(***************************************************************************)
\* the validity decision of the last search the frame invoked
FinalValid ==
  IF frame.ranSF THEN frame.sf.lanes_detected
  ELSE IF frame.ranSW THEN frame.sw.lanes_detected ELSE "n/a"

\* a search that returned to process_image, and what it returned
Returned(ran, r) == ran /\ ~r.raised

\* C1: a frame that starts with lanes_detected True (the previous frame ended
\* with both fits valid) invokes subsequent_frame and not sliding_window.
C1_TrackingRunsTargetedOnly ==
  [][lanes_detected = PyTrue => (frame'.ranSF /\ ~frame'.ranSW)]_vars

C1_Witness ==
  /\ frame.processed /\ frame.start = PyTrue
  /\ frame.ranSF /\ ~frame.ranSW

\* C2 (as stated): when the last search of a frame decided that the fit pair
\* is invalid, the next frame invokes sliding_window.
C2_InvalidThenWindowSearch ==
  [][(frame.processed /\ FinalValid = PyFalse) => frame'.ranSW]_vars

\* C3 (as stated): each frame invokes exactly one search, sliding_window when
\* it starts in Searching and subsequent_frame when it starts in Tracking.
C3_ExactlyOneSearch ==
  frame.processed =>
    /\ frame.start = PyTrue => (frame.ranSF /\ ~frame.ranSW)
    /\ frame.start # PyTrue => (frame.ranSW /\ ~frame.ranSF)

\* C3 (amended): sliding_window runs exactly in the frames that start with
\* lanes_detected None; subsequent_frame runs exactly in the frames that start
\* with lanes_detected True or whose sliding_window returned True, so a frame
\* that starts in Searching and finds both lines runs both searches.
C3_SearchesPerFrame ==
  frame.processed =>
    /\ frame.ranSW <=> frame.start = PyNone
    /\ frame.ranSF <=>
         \/ frame.start = PyTrue
         \/ Returned(frame.ranSW, frame.sw) /\ frame.sw.lanes_detected = PyTrue

C3_Witness ==
  /\ frame.processed /\ frame.start = PyNone
  /\ frame.ranSW /\ frame.ranSF

\* C4 (as stated): process_image returns normally on every frame.
C4_NeverRaises == ~frame.raised

\* C5 (as stated): a frame fed the all-zero mask ends with the tracker in
\* Searching and an invalid fit pair returned by its search.
C5_ZeroMaskFallsBack ==
  (frame.processed /\ frame.mask = ZeroMask) =>
    /\ lanes_detected # PyTrue
    /\ ~frame.raised
    /\ FinalValid = PyFalse

\* C6: a frame whose last search decided that the fit pair is invalid returns
\* no overlay image, so nothing is drawn or measured from those fits.
C6_InvalidNoGeometry ==
  (frame.processed /\ FinalValid = PyFalse) => frame.image.kind # "overlay"

C6_Witness ==
  /\ frame.processed /\ frame.ranSW /\ ~frame.ranSF
  /\ FinalValid = PyFalse
  /\ lanes_detected = PyNone
  /\ frame.image.kind # "overlay"

\* C7: whenever the tracker is in Searching at a frame boundary, the stored
\* left and right fits are the empty lists of the initial state.
C7_SearchingHasNoFits ==
  lanes_detected # PyTrue => (left_fit = <<>> /\ right_fit = <<>>)

C7_Witness ==
  /\ frame.processed /\ frame.ranSW /\ FinalValid = PyFalse
  /\ lanes_detected = PyNone
  /\ left_fit = <<>> /\ right_fit = <<>>

C9_AbortKeepsTrackerState ==
  [][frame'.raised =>
       /\ lanes_detected' = lanes_detected
       /\ left_fit' = left_fit
       /\ right_fit' = right_fit]_vars

\* C9 (amended): the tracker state is assigned after each search that
\* returns, so a frame that raises leaves the values its sliding_window
\* returned when that search returned before the raise, and the values of the
\* start of the frame otherwise.
C9_AbortKeepsLastCommit ==
  [][frame'.raised =>
       IF Returned(frame'.ranSW, frame'.sw)
       THEN /\ lanes_detected' = frame'.sw.lanes_detected
            /\ left_fit' = frame'.sw.left_fit
            /\ right_fit' = frame'.sw.right_fit
       ELSE /\ lanes_detected' = lanes_detected
            /\ left_fit' = left_fit
            /\ right_fit' = right_fit]_vars

C9_Witness ==
  /\ frame.processed /\ frame.raised
  /\ frame.start = PyNone
  /\ Returned(frame.ranSW, frame.sw)
  /\ lanes_detected = PyTrue /\ left_fit = frame.sw.left_fit

\* C10 (as stated): a search decides that the pair is valid only if each
\* line's pixel set holds at least two distinct y-values.
C10_ValidNeedsTwoRows ==
  /\ (frame.ranSW /\ frame.sw.lanes_detected = PyTrue) =>
       /\ Cardinality(Rows(frame.sw.leftpx)) >= 2
       /\ Cardinality(Rows(frame.sw.rightpx)) >= 2
  /\ (frame.ranSF /\ frame.sf.lanes_detected = PyTrue) =>
       /\ Cardinality(Rows(frame.sf.leftpx)) >= 2
       /\ Cardinality(Rows(frame.sf.rightpx)) >= 2

\* C10 (amended): a search decides that the pair is valid only if each line's
\* sample array holds at least two entries, an entry being one nonzero
\* element of the mask, so that one pixel of a three-channel mask is enough.
C10_ValidNeedsTwoSamples ==
  /\ (frame.ranSW /\ frame.sw.lanes_detected = PyTrue) =>
       /\ SampleCount(frame.sw.leftpx) >= 2
       /\ SampleCount(frame.sw.rightpx) >= 2
  /\ (frame.ranSF /\ frame.sf.lanes_detected = PyTrue) =>
       /\ SampleCount(frame.sf.leftpx) >= 2
       /\ SampleCount(frame.sf.rightpx) >= 2

C10_Witness ==
  /\ frame.ranSF /\ ~frame.sf.raised
  /\ frame.sf.lanes_detected = PyTrue
  /\ Cardinality(frame.sf.leftpx) = 1

\* C11: each search is a function of its arguments: whatever mask the
\* single-image cells left in the module-level warped_binary, the window
\* search returns for the frame's mask the same pixel sets, fits and centre
\* offset, and the targeted search returns what its mask and priors give.
C11_SearchesReadOnlyArguments ==
  /\ frame.ranSW =>
       \A g \in GlobalMasks : frame.sw = sliding_window(frame.mask, g)
  /\ frame.ranSF =>
       frame.sf = subsequent_frame(frame.mask, frame.prior[1], frame.prior[2])

\* the frame invoked a search, and the centre offset its last search computed
Searched(f) == f.ranSW \/ f.ranSF

OffsetOf(f) ==
  IF f.ranSF THEN f.sf.center_offset ELSE f.sw.center_offset


\* C12: between two frames whose histogram midpoints differ by Delta (a
\* multiple of half a pixel), center_offset differs by exactly Delta and the
\* lateral offset in centimetres by exactly Delta * xm_per_pix * 100.
C12_OffsetShiftsExactly ==
  [][(Searched(frame) /\ Searched(frame')) =>
       LET twoDelta == frame'.base_sum - frame.base_sum
       IN  /\ 2 * (OffsetOf(frame') - OffsetOf(frame)) = twoDelta
           /\ (frame.image.kind = "overlay" /\ frame'.image.kind = "overlay")
                => 2 * xm_per_pix_den
                     * (frame'.image.position - frame.image.position)
                   = twoDelta * 1000 * xm_per_pix_num]_vars

\* C12 (amended): center_offset is a whole number of pixels, so between two
\* frames it differs by Delta when the two base sums have the same parity
\* and by Delta plus or minus half a pixel otherwise; the lateral offset is
\* rounded to a tenth of a centimetre, so it differs by the difference of
\* center_offset times xm_per_pix * 100 to within a tenth of a centimetre.
C12_OffsetShiftsRounded ==
  [][(Searched(frame) /\ Searched(frame')) =>
       LET twoDelta == frame'.base_sum - frame.base_sum
           dOff == OffsetOf(frame') - OffsetOf(frame)
           dPos == frame'.image.position - frame.image.position
       IN  /\ Abs(2 * dOff - twoDelta) <= 1
           /\ frame'.base_sum % 2 = frame.base_sum % 2
                => 2 * dOff = twoDelta
           /\ (frame.image.kind = "overlay" /\ frame'.image.kind = "overlay")
                => Abs(xm_per_pix_den * dPos - 1000 * xm_per_pix_num * dOff)
                     < xm_per_pix_den]_vars

C12_Witness ==
  /\ frame.start = PyTrue
  /\ frame.image.kind = "overlay"
  /\ frame.base_sum % 2 = 1
  /\ frame.image.position # 0

(***************************************************************************)
(* The report of calculate_curvature, lines 637-640, applied to pairs of   *)
(* radii.  A radius is the value of line 634 or 635 in whole metres; the   *)
(* curvature is counted in twentieths of a kilometre (0.05 km), the unit   *)
(* in which half the sum of two tenths is a whole number.                  *)
(***************************************************************************)
MaxRadius == 8
RadiusStep == 130
MaxOffset == 2

\* finite radii that round(r/1000, 1) does not meet on a tie
Radii == {r \in {RadiusStep * k : k \in 0..MaxRadius} : r % 100 # 50}

MidOffsets == (0 - MaxOffset)..MaxOffset

\* round(curverad/1000, 1) in tenths of a kilometre
RoundKm(curverad) == (curverad + 50) \div 100

\* faulty variant: the mean of the radii is taken first and rounded once
curvature_mean_first(left_curverad, right_curverad) ==
  2 * RoundKm((left_curverad + right_curverad) \div 2)

\* 0.5*(round(right_curverad/1000,1) + round(left_curverad/1000,1)): half
\* the sum of two numbers of tenths is their sum in twentieths
curvature(left_curverad, right_curverad) ==
  RoundKm(right_curverad) + RoundKm(left_curverad)

calculate_curvature(midoffset, left_curverad, right_curverad) ==
  /\ geom' = [done |-> TRUE, midoffset |-> midoffset,
              left_curverad |-> left_curverad,
              right_curverad |-> right_curverad,
              position |-> position(midoffset),
              curvature |-> curvature(left_curverad, right_curverad)]
  /\ UNCHANGED <<lanes_detected, left_fit, right_fit, warped_binary, out_img,
                 fit_samples, frame, ws>>

NextGeometry ==
  \E midoffset \in MidOffsets : \E l \in Radii : \E r \in Radii :
    calculate_curvature(midoffset, l, r)

SpecGeometry == Init /\ [][NextGeometry]_vars

\* C13: for every pair of radii the reported curvature is a number of
\* kilometres with one decimal, an integer multiple of 0.1 km.
C13_CurvatureOneDecimal ==
  geom.done => geom.curvature % 2 = 0

\* C13 (amended): the reported curvature is the mean of the two radii each
\* rounded to a tenth of a kilometre, an integer multiple of 0.05 km; the
\* reported offset is the tenth of a centimetre nearest to
\* 100 * midoffset * xm_per_pix.
C13_MeanOfRoundedRadii ==
  geom.done =>
    /\ \E a \in 0..(geom.curvature) :
         /\ Abs(100 * a - geom.left_curverad) < 50
         /\ Abs(100 * (geom.curvature - a) - geom.right_curverad) < 50
    /\ Abs(2 * xm_per_pix_den * geom.position
           - 2 * 1000 * xm_per_pix_num * geom.midoffset) < xm_per_pix_den

C13_Witness ==
  /\ geom.done
  /\ geom.curvature % 2 = 1
  /\ geom.left_curverad # geom.right_curverad
  /\ geom.midoffset < 0

\* C14: a call of process_image changes no module-level variable other than
\* the tracker state (lanes_detected, left_fit, right_fit).
C14_OnlyTrackerStateChanges ==
  [][out_img' = out_img /\ warped_binary' = warped_binary]_vars

\* C14 (amended): besides the tracker state a call of process_image changes
\* the module-level out_img, exactly on the frames that invoke the window
\* search, which rebuilds it from the frame's mask and the pixels collected;
\* the module-level warped_binary is never changed.
C14_TrackerStateAndOutImg ==
  [][/\ warped_binary' = warped_binary
     /\ ~frame'.ranSW => out_img' = out_img
     /\ frame'.ranSW =>
          out_img' = [img |-> frame'.mask, left |-> frame'.sw.leftpx,
                      right |-> frame'.sw.rightpx]]_vars

C14_Witness ==
  /\ frame.ranSW
  /\ out_img.img = frame.mask
  /\ out_img.img # warped_binary
  /\ out_img.left # {}

\* C15: when the leading coefficient of a line's fit is zero, the geometry
\* converter does not evaluate the division by |2A|: every divisor that
\* calculate_curvature divides by while annotating a frame is nonzero.
C15_NoDivisionByZero ==
  frame.image.kind = "overlay" =>
    \A i \in 1..Len(frame.image.divisors) : frame.image.divisors[i] # 0

\* C16: the centre offset returned by the targeted search is the one the
\* window search returns for the same mask, whatever the prior fits: a frame
\* that runs both searches gets the same offset from both, and every
\* targeted search returns the offset of lines 377-383 for its mask.
C16_SameCentreOffset ==
  /\ (frame.ranSW /\ frame.ranSF) =>
       frame.sf.center_offset = frame.sw.center_offset
  /\ frame.ranSF => frame.sf.center_offset = center_offset(frame.mask)

C16_Witness ==
  /\ frame.start = PyTrue
  /\ frame.ranSF /\ ~frame.sf.raised
  /\ frame.prior # <<frame.sf.left_fit, frame.sf.right_fit>>
  /\ frame.sf.center_offset # 0
  /\ frame.sf.center_offset = center_offset(frame.mask)

(***************************************************************************)
(* The window loop of sliding_window, lines 377-439, on masks made of      *)
(* horizontal runs of pixels, as the single-image cell calls it (line 453: *)
(* the argument is the module-level warped_binary itself).  A run is       *)
(* <<first column, length, row>>.                                          *)
(***************************************************************************)
\* the shortest run whose nonzero() entries outnumber minpix
RunLen == minpix \div Channels + 1

Runs ==
  {<<100, RunLen - 1, H - 1>>, <<116, 1, H - 1>>, <<190, RunLen, H - 2>>,
   <<290, 2, H - 3>>, <<1000, RunLen, H - 1>>, <<1090, RunLen, H - 2>>,
   <<1195, 1, H - 3>>}

RunPixels(r) == {<<x, r[3]>> : x \in r[1]..(r[1] + r[2] - 1)}

RunMask(rs) == [p \in UNION {RunPixels(r) : r \in rs} |-> Full]

\* the state of the loop before every band and after the last one
RECURSIVE WindowTrace(_, _)
WindowTrace(nz, st) ==
  IF st.window = nwindows THEN <<st>>
  ELSE <<st>> \o
       CHOOSE t \in {WindowTrace(nz, nxt) : nxt \in {WindowStep(nz, st)}} :
         TRUE

window_search(rs) ==
  /\ \E m \in {RunMask(rs)} :
       ws' = [done |-> TRUE, runs |-> rs,
              trace |-> WindowTrace(Active(m),
                          [window |-> 0, lcur |-> leftx_base(m),
                           rcur |-> rightx_base(m),
                           left |-> {}, right |-> {}])]
  /\ UNCHANGED <<lanes_detected, left_fit, right_fit, warped_binary, out_img,
                 fit_samples, frame, geom>>

NextWindows == \E rs \in SUBSET Runs : window_search(rs)

SpecWindows == Init /\ [][NextWindows]_vars

\* the pixels of band k (1..nwindows) that lie in the window centred on cur
BandPixels(k, cur) ==
  {p \in UNION {RunPixels(r) : r \in ws.runs} :
     /\ p[2] >= H - k * window_height
     /\ p[2] < H - (k - 1) * window_height
     /\ p[1] - cur >= 0 - margin
     /\ p[1] - cur < margin}

\* c is the mean column of the pixel set px, truncated
TruncatedMean(c, px) ==
  LET total == Sum([p \in px |-> p[1]], px)
      n == Cardinality(px)
  IN  c * n <= total /\ total < (c + 1) * n

\* the centre after a band whose window held px, when more than "needed"
\* counted units are required to move it
CentreRule(before, after, px, count, needed) ==
  IF count > needed THEN TruncatedMean(after, px) ELSE after = before

NearCurve(p, fit) ==
  Abs(p[1] * fit[4]
      - (fit[1] * p[2] * p[2] + fit[2] * p[2] + fit[3])) < margin * fit[4]

\* C18: the targeted search tests every active pixel of the mask passed to
\* it: the pixel is in the left set iff its distance from the prior left
\* curve is below margin, and in the right set iff its distance from the
\* prior right curve is.
C18_BandMembership ==
  (frame.ranSF /\ frame.sf.lanes_detected # PyNone) =>
    /\ frame.sf.leftpx \cup frame.sf.rightpx \subseteq Active(frame.mask)
    /\ \A p \in Active(frame.mask) :
         /\ p \in frame.sf.leftpx <=> NearCurve(p, frame.prior[1])
         /\ p \in frame.sf.rightpx <=> NearCurve(p, frame.prior[2])

C18_Witness ==
  /\ frame.ranSF /\ ~frame.sf.raised
  /\ frame.sf.leftpx # {}
  /\ \E p \in Active(frame.mask) :
       p[1] < midpoint /\ p \notin frame.sf.leftpx

C20_PriorsFromPrecedingSearch ==
  [][frame'.ranSF =>
       \E last \in {IF frame'.ranSW THEN frame'.sw
                    ELSE IF frame.ranSF THEN frame.sf ELSE frame.sw} :
         /\ frame'.ranSW \/ Searched(frame)
         /\ ~last.raised
         /\ last.lanes_detected = PyTrue
         /\ frame'.prior = <<last.left_fit, last.right_fit>>]_vars

====
